---- MODULE Spec2Model ----
(***************************************************************************)
(* A model of handparser.py: the PokerHand record (mapping interface,      *)
(* derived board) and the three room grammars PokerStarsHand, FullTiltHand *)
(* and PKRHand (parse_header, parse and the body extraction steps).        *)
(*                                                                         *)
(* Text is modelled after segmentation: _splitted is a sequence of line    *)
(* records, a regular expression matches a line exactly when the line is   *)
(* of the kind the expression describes, and its groups are the fields of  *)
(* the record. Python indices are 0-based; At(i) reads _splitted[i].       *)
(* Player names and action texts of the model contain none of the words    *)
(* the code searches for ("collected", "won", "shows", "wins").            *)
(***************************************************************************)
EXTENDS Integers, Sequences, FiniteSets, TLC

VARIABLES
    room,       \* the grammar the caller instantiated: "STARS", "FTP", "PKR"
    splitted,   \* self._splitted, fixed by __init__
    sections,   \* self._sections, fixed by __init__
    d,          \* the instance attributes (unset ones read as AttributeError)
    outcome,    \* how the last call ended: "new", "ok" or the exception raised
    last,       \* the last call: "init", "parse_header", "parse", "setitem", "board",
                \* or the normalizer called
    hruns,      \* how many times the last call entered the header grammar
    calls,      \* number of calls made on the record so far
    out,        \* what the last read of the derived board or normalizer call returned
    arg         \* the string handed to the last normalizer call

vars == <<room, splitted, sections, d, outcome, last, hruns, calls, out, arg>>

-----------------------------------------------------------------------------
(* Bounds of the model *)

MaxSeat == 3        \* seat numbers of the generated texts are 1..MaxSeat
MaxSeatLines == 2   \* at most this many seat lines in a generated text
MaxSummary == 2     \* at most this many winner/summary lines
MaxCalls == 2       \* calls made on one record

-----------------------------------------------------------------------------
(* Python values *)

V(t, i, s, q, z) == [t |-> t, i |-> i, s |-> s, q |-> q, z |-> z]
Unset == V("unset", 0, "", <<>>, <<>>)
None == V("none", 0, "", <<>>, <<>>)
IntV(n) == V("int", n, "", <<>>, <<>>)
StrV(x) == V("str", 0, x, <<>>, <<>>)
BoolV(b) == V("bool", IF b THEN 1 ELSE 0, "", <<>>, <<>>)
Tup(q) == V("tuple", 0, "", q, <<>>)
ODict(names, stacks) == V("odict", 0, "", names, stacks)

Truthy(v) ==
    CASE v.t = "none" -> FALSE
      [] v.t \in {"int", "bool"} -> v.i # 0
      [] v.t = "str" -> v.s # ""
      [] OTHER -> Len(v.q) > 0

\* seq[i] of Python for a list of length n: the 1-based position, 0 for IndexError
PyIndex(n, i) ==
    IF i >= 0 /\ i < n THEN i + 1
    ELSE IF i < 0 /\ 0 - i <= n THEN n + i + 1
    ELSE 0

\* seq[a:b] of Python for 0 <= a
PySlice(seq, a, b) ==
    IF a >= b \/ a >= Len(seq) THEN <<>>
    ELSE SubSeq(seq, a + 1, IF b > Len(seq) THEN Len(seq) ELSE b)

Min(S) == CHOOSE x \in S : \A y \in S : x <= y

\* e evaluated once, then F of its value
Bind(e, F(_)) == CHOOSE r \in {F(x) : x \in {e}} : TRUE

-----------------------------------------------------------------------------
(* Lines of a segmented text *)

L(k, name, n, m, cards) == [k |-> k, name |-> name, n |-> n, m |-> m, cards |-> cards]
Empty == L("empty", "", 0, 0, <<>>)
Marker(x) == L("marker", x, 0, 0, <<>>)
Act(x) == L("act", x, 0, 0, <<>>)

\* the text of a line, as it appears in a tuple of action lines
Text(line) == IF line.k = "act" THEN line.name ELSE line.k

Texts(lines) == [i \in 1..Len(lines) |-> Text(lines[i])]

At(i) == splitted[i + 1]
NLines == Len(splitted)

\* [ind for ind, elem in enumerate(self._splitted) if not elem]
SectionsOf(text) ==
    LET S == {i \in 0..(Len(text) - 1) : text[i + 1].k = "empty"}
    IN  [k \in 1..Cardinality(S) |-> CHOOSE i \in S : Cardinality({j \in S : j < i}) = k - 1]

\* self._sections[i], -1 for IndexError
Section(i) ==
    IF PyIndex(Len(sections), i) = 0 THEN 0 - 1 ELSE sections[PyIndex(Len(sections), i)]

\* self._splitted.index(x) for a marker x, -1 for ValueError
IndexOfMarker(x) ==
    LET S == {i \in 0..(NLines - 1) : At(i).k = "marker" /\ At(i).name = x}
    IN  IF S = {} THEN 0 - 1 ELSE Min(S)

\* self._splitted.index('', start), -1 for ValueError
IndexOfEmpty(start) ==
    LET S == {i \in start..(NLines - 1) : At(i).k = "empty"}
    IN  IF S = {} THEN 0 - 1 ELSE Min(S)

\* next(v for v in self._sections if v > start), -1 for StopIteration
NextSection(start) ==
    LET S == {k \in 1..Len(sections) : sections[k] > start}
    IN  IF S = {} THEN 0 - 1 ELSE sections[Min(S)]

-----------------------------------------------------------------------------
(* The state of one running call: the attributes, the exception raised so  *)
(* far ("ok" for none) and the number of header grammar runs.              *)

Run(dd) == [d |-> dd, err |-> "ok", h |-> 0]

Set(s, k, v) == IF s.err # "ok" THEN s ELSE [s EXCEPT !.d[k] = v]

Raise(s, e) == IF s.err # "ok" THEN s ELSE [s EXCEPT !.err = e]

\* the assignments kvs = <<name, value>>, ... made in order
Assign(dd, kvs) ==
    [a \in DOMAIN dd |->
        LET hit == {i \in 1..Len(kvs) : kvs[i][1] = a}
        IN  IF hit = {} THEN dd[a]
            ELSE kvs[CHOOSE i \in hit : \A j \in hit : j <= i][2]]

SetAll(s, kvs) ==
    IF s.err # "ok" THEN s
    ELSE Bind(kvs, LAMBDA vs : [s EXCEPT !.d = Assign(s.d, vs)])

-----------------------------------------------------------------------------
(* Lookup tables and dates *)

\* The module-level tables TYPES, GAMES, LIMITS and MONEY_TYPES are used by
\* every parse_header but are not part of handparser.py as given; they are
\* modelled as the tables the record's enumerated codes imply. "" stands for
\* KeyError.
TYPES(x) == CASE x = "Tournament" -> "TOUR" [] x = "RING" -> "CASH" [] OTHER -> ""
GAMES(x) == CASE x \in {"Hold'em", "HOLD'EM"} -> "HOLDEM" [] x = "OMAHA" -> "OMAHA" [] OTHER -> ""
LIMITS(x) == CASE x \in {"No Limit", "NL", "NO LIMIT"} -> "NL" [] x \in {"Pot Limit", "PL"} -> "PL" [] OTHER -> ""
MONEY_TYPES(x) == CASE x = "REAL MONEY" -> "R" [] x = "PLAY MONEY" -> "P" [] OTHER -> ""

\* self.name = TABLE[key]
Lookup(s, name, code) == IF code = "" THEN Raise(s, "KeyError") ELSE Set(s, name, StrV(code))

\* hours between the room's local time and UTC (US/Eastern in winter, UTC)
ZoneOffset(r) == IF r = "PKR" THEN 0 ELSE 5

\* _parse_date: a date of the text is an hour count, negative when the text
\* does not follow date_format; a date_format stored on the instance is no
\* format of the text
ParseDate(s, hour) ==
    IF s.err # "ok" THEN s
    ELSE IF s.d["date_format"].t = "none" THEN Raise(s, "TypeError")
    ELSE IF s.d["date_format"].t # "unset" THEN Raise(s, "ValueError")
    ELSE IF hour < 0 THEN Raise(s, "ValueError")
    ELSE Set(s, "date", IntV(hour + ZoneOffset(room)))

\* _init_seats
InitSeats(n) == [i \in 1..n |-> [name |-> "Empty Seat " \o ToString(i), stack |-> 0]]

\* one insertion into an OrderedDict: a name already present keeps its
\* position and takes the new stack
Insert(od, p) ==
    LET hit == {i \in 1..Len(od.q) : od.q[i] = p.name}
    IN  IF hit = {} THEN ODict(Append(od.q, p.name), Append(od.z, p.stack))
        ELSE ODict(od.q, [od.z EXCEPT ![Min(hit)] = p.stack])

RECURSIVE InsertFrom(_, _, _)
InsertFrom(players, i, od) ==
    IF i > Len(players) THEN od
    ELSE Bind(Insert(od, players[i]), LAMBDA o : InsertFrom(players, i + 1, o))

\* OrderedDict(players)
OrderedDict(players) == InsertFrom(players, 1, ODict(<<>>, <<>>))

\* players.keys().index(name) + 1, 0 for ValueError
KeyPosition(od, name) ==
    LET hit == {i \in 1..Len(od.q) : od.q[i] = name}
    IN  IF hit = {} THEN 0 ELSE Min(hit)

-----------------------------------------------------------------------------
(* PokerStarsHand *)

StarsHeaderMatches(line) == line.k = "header" /\ line.name # "nomatch"

Enter(s) == [s EXCEPT !.h = @ + 1]

StarsParseHeader(s) ==
    IF ~StarsHeaderMatches(At(0)) THEN Raise(Enter(s), "AttributeError")
    ELSE
    Bind(SetAll(Enter(s), << <<"game_type", StrV(TYPES("Tournament"))>>,
                            <<"sb", IntV(10)>>, <<"bb", IntV(20)>>,
                            <<"buyin", IntV(100)>>, <<"rake", IntV(10)>> >>), LAMBDA s1 :
    Bind(ParseDate(s1, At(0).n), LAMBDA s2 :
    Bind(Lookup(s2, "game", GAMES(IF At(0).name = "badgame" THEN "Chess" ELSE "Hold'em")), LAMBDA s3 :
    SetAll(s3, << <<"limit", StrV(LIMITS("No Limit"))>>,
                  <<"ident", StrV("h1")>>,
                  <<"tournament_ident", StrV("t1")>>,
                  <<"tournament_level", StrV("I")>>,
                  <<"currency", StrV("USD")>>,
                  <<"header_parsed", BoolV(TRUE)>> >>))))

StarsParseTable(s) ==
    IF s.err # "ok" THEN s
    ELSE IF NLines < 2 THEN Raise(s, "IndexError")
    ELSE IF At(1).k # "table" THEN Raise(s, "AttributeError")
    ELSE SetAll(s, << <<"table_name", StrV(At(1).name)>>,
                      <<"max_players", IntV(At(1).n)>>,
                      <<"button_seat", IntV(At(1).m)>> >>)

\* players[seat_number - 1] = (name, stack) inside the seat loop
SeatStep(acc, line) ==
    IF PyIndex(Len(acc.players), line.n - 1) = 0
    THEN [acc EXCEPT !.err = "IndexError", !.seat = line.n]
    ELSE [acc EXCEPT !.players[PyIndex(Len(acc.players), line.n - 1)] =
                        [name |-> line.name, stack |-> line.m],
                     !.seat = line.n]

\* the seat loop of the three rooms from line i on: [players, seat, err],
\* seat being the loop variable seat_number (0 while unbound)
RECURSIVE ScanSeats(_, _)
ScanSeats(i, acc) ==
    IF acc.err # "ok" \/ i >= NLines THEN acc
    ELSE IF At(i).k # "seat" THEN acc
    ELSE Bind(SeatStep(acc, At(i)), LAMBDA a : ScanSeats(i + 1, a))

NoSeats(n) == [players |-> InitSeats(n), seat |-> 0, err |-> "ok"]

StarsSeatsDone(s, acc) ==
    IF acc.err # "ok" THEN Raise(s, acc.err)
    ELSE IF PyIndex(Len(acc.players), s.d["button_seat"].i - 1) = 0 THEN Raise(s, "IndexError")
    ELSE SetAll(s, << <<"button", StrV(acc.players[PyIndex(Len(acc.players), s.d["button_seat"].i - 1)].name)>>,
                      <<"players", OrderedDict(acc.players)>> >>)

StarsParseSeats(s) ==
    IF s.err # "ok" THEN s
    ELSE Bind(ScanSeats(2, NoSeats(s.d["max_players"].i)), LAMBDA acc : StarsSeatsDone(s, acc))

\* _parse_hole_cards of PokerStarsHand and FullTiltHand
ParseHoleCards(s) ==
    IF s.err # "ok" THEN s
    ELSE IF Section(0) < 0 \/ Section(0) + 2 >= NLines THEN Raise(s, "IndexError")
    ELSE IF At(Section(0) + 2).k # "dealt" THEN Raise(s, "AttributeError")
    ELSE Bind(At(Section(0) + 2), LAMBDA line :
         Bind(KeyPosition(s.d["players"], line.name), LAMBDA pos :
              IF pos = 0 THEN Raise(Set(s, "hero", StrV(line.name)), "ValueError")
              ELSE SetAll(s, << <<"hero", StrV(line.name)>>,
                                <<"hero_seat", IntV(pos)>>,
                                <<"hero_hole_cards", Tup(line.cards)>> >>)))

\* _parse_preflop of PokerStarsHand and FullTiltHand
ParsePreflop(s) ==
    IF s.err # "ok" THEN s
    ELSE IF Section(0) < 0 \/ Section(1) < 0 THEN Raise(s, "IndexError")
    ELSE Set(s, "preflop_actions", Tup(Texts(PySlice(splitted, Section(0) + 3, Section(1)))))

Upper(street) == CASE street = "flop" -> "FLOP" [] street = "turn" -> "TURN" [] OTHER -> "RIVER"

ActionsOf(street) == CASE street = "flop" -> "flop_actions" [] street = "turn" -> "turn_actions" [] OTHER -> "river_actions"

\* tuple(street_actions) if street_actions else None
ActionsValue(lines) == IF lines = <<>> THEN None ELSE Tup(Texts(lines))

StarsParseStreet(s, street) ==
    IF s.err # "ok" THEN s
    ELSE
    LET idx == IndexOfMarker(Upper(street))
        stop == IndexOfEmpty(idx + 2)
    IN  IF idx < 0 \/ stop < 0
        THEN SetAll(s, << <<street, None>>, <<ActionsOf(street), None>> >>)
        ELSE Set(s, ActionsOf(street), ActionsValue(PySlice(splitted, idx + 2, stop)))

\* "SHOW DOWN" in self._splitted
ShowDownMarker == IndexOfMarker("SHOW DOWN") >= 0

\* _parse_pot of PokerStarsHand and FullTiltHand
ParsePot(s) ==
    IF s.err # "ok" THEN s
    ELSE IF Section(0 - 1) < 0 \/ Section(0 - 1) + 2 >= NLines THEN Raise(s, "IndexError")
    ELSE IF At(Section(0 - 1) + 2).k # "pot" THEN Raise(s, "AttributeError")
    ELSE Set(s, "total_pot", IntV(At(Section(0 - 1) + 2).n))

StarsParseBoard(s) ==
    IF s.err # "ok" THEN s
    ELSE IF Section(0 - 1) < 0 \/ Section(0 - 1) + 3 >= NLines THEN Raise(s, "IndexError")
    ELSE IF At(Section(0 - 1) + 3).k # "board" THEN s
    ELSE LET cards == At(Section(0 - 1) + 3).cards
         IN  SetAll(s, << <<"flop", IF cards = <<>> THEN None ELSE Tup(PySlice(cards, 0, 3))>>,
                          <<"turn", IF Len(cards) > 3 THEN StrV(cards[4]) ELSE None>>,
                          <<"river", IF Len(cards) > 4 THEN StrV(cards[5]) ELSE None>> >>)

\* the substring tests of the winner loops
HasCollected(line) == line.k = "collected"
HasWon(line) == line.k = "won"

\* set.add; the set is kept in the order the names were added
AddName(w, name) == IF \E j \in 1..Len(w) : w[j] = name THEN w ELSE Append(w, name)

\* a pass of the loop that takes the names of both kinds of line
WinnerStepBoth(w, sd, line) ==
    IF HasCollected(line) \/ HasWon(line) THEN AddName(w, line.name)
    ELSE w

\* one pass of the loop of _parse_winners: the names added by the line
WinnerStep(w, sd, line) ==
    IF ~sd /\ HasCollected(line) THEN AddName(w, line.name)
    ELSE IF sd /\ HasWon(line) THEN AddName(w, line.name)
    ELSE w

\* the loop of _parse_winners (PokerStarsHand, FullTiltHand) from line i on
RECURSIVE WinnerLoop(_, _, _)
WinnerLoop(i, sd, w) ==
    IF i >= NLines THEN w
    ELSE Bind(WinnerStep(w, sd, At(i)), LAMBDA w1 : WinnerLoop(i + 1, sd, w1))

ParseWinners(s) ==
    IF s.err # "ok" THEN s
    ELSE IF Section(0 - 1) < 0 THEN Raise(s, "IndexError")
    ELSE Set(s, "winners", Tup(WinnerLoop(Section(0 - 1) + 4, Truthy(s.d["show_down"]), <<>>)))

\* PokerHand.parse: the header grammar runs unless header_parsed is true
StarsBaseParse(s) == IF ~Truthy(s.d["header_parsed"]) THEN StarsParseHeader(s) ELSE s

StarsParse(s0) ==
    Bind(StarsBaseParse(s0), LAMBDA s1 :
    Bind(StarsParseTable(s1), LAMBDA s2 :
    Bind(StarsParseSeats(s2), LAMBDA s3 :
    Bind(ParseHoleCards(s3), LAMBDA s4 :
    Bind(ParsePreflop(s4), LAMBDA s5 :
    Bind(StarsParseStreet(s5, "flop"), LAMBDA s6 :
    Bind(StarsParseStreet(s6, "turn"), LAMBDA s7 :
    Bind(StarsParseStreet(s7, "river"), LAMBDA s8 :
    Bind(Set(s8, "show_down", BoolV(ShowDownMarker)), LAMBDA s9 :
    Bind(ParsePot(s9), LAMBDA s10 :
    Bind(StarsParseBoard(s10), LAMBDA s11 :
    Bind(ParseWinners(s11), LAMBDA s12 :
    Set(s12, "parsed", BoolV(TRUE))))))))))))))

-----------------------------------------------------------------------------
(* FullTiltHand *)

FTPDefaultSeats == 9

FullTiltParseHeader(s) ==
    Bind(Set(Enter(s), "game_type", StrV("TOUR")), LAMBDA s1 :
    LET shape == IF At(0).k = "header" THEN At(0).name ELSE "notour"
    IN  IF shape = "notour" THEN Raise(s1, "AttributeError")
        ELSE
        Bind(SetAll(s1, << <<"ident", StrV("h1")>>,
                           <<"tournament_name", StrV("$5 Sit & Go")>>,
                           <<"tournament_ident", StrV("t1")>>,
                           <<"table_name", StrV("1")>> >>), LAMBDA s2 :
        IF shape = "nogame" THEN Raise(s2, "AttributeError")
        ELSE
        Bind(Set(s2, "limit", StrV(LIMITS("NL"))), LAMBDA s3 :
        Bind(Lookup(s3, "game", GAMES(IF shape = "badgame" THEN "Chess" ELSE "Hold'em")), LAMBDA s4 :
        IF shape = "noblind" THEN Raise(s4, "AttributeError")
        ELSE
        Bind(SetAll(s4, << <<"sb", IntV(10)>>, <<"bb", IntV(20)>> >>), LAMBDA s5 :
        IF shape = "nodate" THEN Raise(s5, "AttributeError")
        ELSE
        Bind(ParseDate(s5, At(0).n), LAMBDA s6 :
        SetAll(s6, << <<"tournament_level", None>>, <<"buyin", None>>,
                      <<"rake", None>>, <<"currency", None>>,
                      <<"header_parsed", BoolV(TRUE)>> >>)))))))

\* the assignments that follow the seat loop in FullTiltHand and PKRHand:
\* max_players and players
SeatsDone(s, acc) ==
    IF acc.err # "ok" THEN Raise(s, acc.err)
    ELSE IF acc.seat = 0 THEN Raise(s, "UnboundLocalError")
    ELSE SetAll(s, << <<"max_players", IntV(acc.seat)>>,
                      <<"players", OrderedDict(PySlice(acc.players, 0, acc.seat))>> >>)

\* button_seat, then button = players[self.button_seat - 1][0] on the list
\* before it was cut
ButtonDone(s, acc, seat) ==
    Bind(Set(s, "button_seat", IntV(seat)), LAMBDA s1 :
         IF PyIndex(Len(acc.players), seat - 1) = 0 THEN Raise(s1, "IndexError")
         ELSE Set(s1, "button", StrV(acc.players[PyIndex(Len(acc.players), seat - 1)].name)))

FullTiltButton(s, acc) ==
    IF s.err # "ok" THEN s
    ELSE IF Section(0) < 0 \/ PyIndex(NLines, Section(0) - 1) = 0 THEN Raise(s, "IndexError")
    ELSE IF splitted[PyIndex(NLines, Section(0) - 1)].k # "button" THEN Raise(s, "AttributeError")
    ELSE ButtonDone(s, acc, splitted[PyIndex(NLines, Section(0) - 1)].n)

FullTiltParseSeats(s) ==
    IF s.err # "ok" THEN s
    ELSE Bind(ScanSeats(1, NoSeats(FTPDefaultSeats)), LAMBDA acc :
         Bind(SeatsDone(s, acc), LAMBDA s1 : FullTiltButton(s1, acc)))

RECURSIVE Join(_)
Join(cards) ==
    IF cards = <<>> THEN ""
    ELSE IF Len(cards) = 1 THEN cards[1]
    ELSE cards[1] \o " " \o Join(Tail(cards))

PotOf(street) == CASE street = "flop" -> "flop_pot" [] street = "turn" -> "turn_pot" [] OTHER -> "river_pot"

NumPlayersOf(street) == CASE street = "flop" -> "flop_num_players" [] street = "turn" -> "turn_num_players" [] OTHER -> "river_num_players"

FullTiltParseBoardline(s, start, street) ==
    IF start >= NLines THEN Raise(s, "IndexError")
    ELSE IF At(start).k # "streetline" THEN Raise(s, "AttributeError")
    ELSE SetAll(s, << <<street, IF street = "flop" THEN Tup(At(start).cards)
                                ELSE StrV(Join(At(start).cards))>>,
                      <<PotOf(street), IntV(At(start).n)>>,
                      <<NumPlayersOf(street), IntV(At(start).m)>> >>)

FullTiltParseStreet(s, street) ==
    IF s.err # "ok" THEN s
    ELSE
    LET idx == IndexOfMarker(Upper(street))
        start == idx + 1
        stop == NextSection(start)
    IN  IF idx < 0
        THEN SetAll(s, << <<street, None>>, <<ActionsOf(street), None>>,
                          <<PotOf(street), None>>, <<NumPlayersOf(street), None>> >>)
        ELSE Bind(FullTiltParseBoardline(s, start, street), LAMBDA s1 :
                  IF stop < 0 THEN Raise(s1, "StopIteration")
                  ELSE Set(s1, ActionsOf(street), ActionsValue(PySlice(splitted, start + 1, stop))))

FullTiltBaseParse(s) == IF ~Truthy(s.d["header_parsed"]) THEN FullTiltParseHeader(s) ELSE s

FullTiltParse(s0) ==
    Bind(FullTiltBaseParse(s0), LAMBDA s1 :
    Bind(FullTiltParseSeats(s1), LAMBDA s2 :
    Bind(ParseHoleCards(s2), LAMBDA s3 :
    Bind(ParsePreflop(s3), LAMBDA s4 :
    Bind(FullTiltParseStreet(s4, "flop"), LAMBDA s5 :
    Bind(FullTiltParseStreet(s5, "turn"), LAMBDA s6 :
    Bind(FullTiltParseStreet(s6, "river"), LAMBDA s7 :
    Bind(Set(s7, "show_down", BoolV(ShowDownMarker)), LAMBDA s8 :
    Bind(ParsePot(s8), LAMBDA s9 :
    Bind(ParseWinners(s9), LAMBDA s10 :
    Set(s10, "parsed", BoolV(TRUE))))))))))))

-----------------------------------------------------------------------------
(* PKRHand *)

PKRDefaultSeats == 10

\* x[0:3:2] on a card of the text
Squeeze(c) ==
    CASE c = "2 s" -> "2s" [] c = "3 d" -> "3d" [] c = "4 h" -> "4h"
      [] c = "5 c" -> "5c" [] c = "6 d" -> "6d" [] c = "A h" -> "Ah"
      [] c = "K d" -> "Kd" [] OTHER -> c

SqueezeAll(cards) == [i \in 1..Len(cards) |-> Squeeze(cards[i])]

PKRParseHeader(s) ==
    IF NLines < 10 THEN Raise(Enter(s), "IndexError")
    ELSE
    Bind(SetAll(Enter(s), << <<"table_name", StrV(At(0).name)>>,
                            <<"ident", StrV(At(1).name)>> >>), LAMBDA s1 :
    Bind(ParseDate(s1, At(2).n), LAMBDA s2 :
    Bind(Set(s2, "last_ident", StrV(At(3).name)), LAMBDA s3 :
    Bind(Lookup(s3, "game", GAMES(At(4).name)), LAMBDA s4 :
    Bind(Lookup(s4, "limit", LIMITS(At(5).name)), LAMBDA s5 :
    Bind(Lookup(s5, "game_type", TYPES(At(6).name)), LAMBDA s6 :
    Bind(Lookup(s6, "money_type", MONEY_TYPES(At(7).name)), LAMBDA s7 :
    IF At(8).k # "blinds" THEN Raise(s7, "AttributeError")
    ELSE
    Bind(SetAll(s7, << <<"sb", IntV(At(8).n)>>, <<"bb", IntV(At(8).m)>>,
                       <<"buyin", IntV(At(8).m * 100)>> >>), LAMBDA s8 :
    IF At(9).k # "pkr" THEN Raise(s8, "ValueError")
    ELSE SetAll(s8, << <<"button", IntV(At(9).n)>>,
                       <<"tournament_ident", None>>, <<"tournament_name", None>>,
                       <<"tournament_level", None>> >>)))))))))

PKRButton(s, acc) ==
    IF s.err # "ok" THEN s
    ELSE IF Section(0) < 0 \/ Section(0) + 1 >= NLines THEN Raise(s, "IndexError")
    ELSE IF At(Section(0) + 1).k # "button" THEN Raise(s, "ValueError")
    ELSE ButtonDone(s, acc, At(Section(0) + 1).n)

PKRParseSeats(s) ==
    IF s.err # "ok" THEN s
    ELSE Bind(ScanSeats(10, NoSeats(PKRDefaultSeats)), LAMBDA acc :
         Bind(SeatsDone(s, acc), LAMBDA s1 : PKRButton(s1, acc)))

PKRParseHero(s) ==
    IF s.err # "ok" THEN s
    ELSE IF Section(1) < 0 \/ Section(1) + 1 >= NLines THEN Raise(s, "IndexError")
    ELSE IF At(Section(1) + 1).k # "dealt" THEN Raise(s, "AttributeError")
    ELSE Bind(At(Section(1) + 1), LAMBDA line :
         Bind(SetAll(s, << <<"hero_hole_cards", Tup(SqueezeAll(line.cards))>>,
                           <<"hero", StrV(line.name)>> >>), LAMBDA s1 :
         Bind(KeyPosition(s.d["players"], line.name), LAMBDA pos :
              IF pos = 0 THEN Raise(s1, "ValueError")
              ELSE Set(s1, "hero_seat", IntV(pos)))))

PKRParsePreflop(s) ==
    IF s.err # "ok" THEN s
    ELSE IF Section(1) < 0 THEN Raise(s, "IndexError")
    ELSE IF IndexOfEmpty(Section(1) + 3) < 0 THEN Raise(s, "ValueError")
    ELSE Set(s, "preflop_actions",
             Tup(Texts(PySlice(splitted, Section(1) + 2, IndexOfEmpty(Section(1) + 3) - 1))))

StreetSection(street) == CASE street = "flop" -> 2 [] street = "turn" -> 3 [] OTHER -> 4

\* the except IndexError branch of _parse_street
PKRStreetAbsent(s, street) ==
    SetAll(s, << <<street, None>>, <<ActionsOf(street), None>>, <<PotOf(street), None>> >>)

\* the try branch of _parse_street from the street's line at start on
PKRStreetFound(s, street, start) ==
    LET cards == SqueezeAll(At(start).cards)
        next == NextSection(start)
    IN  IF street # "flop" /\ cards = <<>> THEN PKRStreetAbsent(s, street)
        ELSE
        Bind(Set(s, street, IF street = "flop" THEN Tup(cards) ELSE StrV(cards[1])), LAMBDA s1 :
        IF next < 0 THEN Raise(s1, "StopIteration")
        ELSE
        Bind(Set(s1, ActionsOf(street), Tup(Texts(PySlice(splitted, start + 1, next - 1)))), LAMBDA s2 :
        IF PyIndex(NLines, start - 2) = 0 THEN PKRStreetAbsent(s, street)
        ELSE IF splitted[PyIndex(NLines, start - 2)].k # "sizes" THEN Raise(s2, "AttributeError")
        ELSE Set(s2, PotOf(street), IntV(splitted[PyIndex(NLines, start - 2)].n))))

PKRParseStreet(s, street) ==
    IF s.err # "ok" THEN s
    ELSE IF Section(StreetSection(street)) < 0 \/ Section(StreetSection(street)) + 1 >= NLines
         THEN PKRStreetAbsent(s, street)
    ELSE PKRStreetFound(s, street, Section(StreetSection(street)) + 1)

\* the substring tests of the showdown loop
HasShows(line) == line.k = "shows"
HasWins(line) == line.k = "wins"

\* one pass of the loop of _parse_showdown: [w, shown, pot], w the list winners,
\* shown whether self.show_down = True ran and pot the local total_pot
ShowdownStep(acc, line) ==
    IF HasShows(line) THEN [acc EXCEPT !.shown = TRUE]
    ELSE IF HasWins(line) THEN [acc EXCEPT !.w = Append(@, line.name), !.pot = @ + line.m]
    ELSE acc

RECURSIVE ShowdownLoop(_, _)
ShowdownLoop(i, acc) ==
    IF i >= NLines THEN acc
    ELSE Bind(ShowdownStep(acc, At(i)), LAMBDA a : ShowdownLoop(i + 1, a))

PKRShowdownDone(s, acc) ==
    Bind(IF acc.shown THEN Set(s, "show_down", BoolV(TRUE)) ELSE s, LAMBDA s1 :
         SetAll(s1, << <<"winners", Tup(acc.w)>>, <<"total_pot", IntV(acc.pot)>> >>))

PKRParseShowdown(s) ==
    IF s.err # "ok" THEN s
    ELSE IF Section(0 - 1) < 0 \/ Section(0 - 1) + 1 >= NLines THEN Raise(s, "IndexError")
    ELSE IF At(Section(0 - 1) + 1).k # "rake" THEN Raise(s, "AttributeError")
    ELSE Bind(Set(s, "rake", IntV(At(Section(0 - 1) + 1).n)), LAMBDA s1 :
         Bind(ShowdownLoop(Section(0 - 1) + 1,
                           [w |-> <<>>, shown |-> FALSE, pot |-> At(Section(0 - 1) + 1).n]), LAMBDA acc :
              PKRShowdownDone(s1, acc)))

PKRBaseParse(s) == IF ~Truthy(s.d["header_parsed"]) THEN PKRParseHeader(s) ELSE s

PKRParse(s0) ==
    Bind(PKRBaseParse(s0), LAMBDA s1 :
    Bind(PKRParseSeats(s1), LAMBDA s2 :
    Bind(PKRParseHero(s2), LAMBDA s3 :
    Bind(PKRParsePreflop(s3), LAMBDA s4 :
    Bind(PKRParseStreet(s4, "flop"), LAMBDA s5 :
    Bind(PKRParseStreet(s5, "turn"), LAMBDA s6 :
    Bind(PKRParseStreet(s6, "river"), LAMBDA s7 :
    PKRParseShowdown(s7))))))))

-----------------------------------------------------------------------------
(* PokerHand: attributes, the derived board and the mapping interface *)

HandAttrs ==
    {"game_type", "sb", "bb", "buyin", "rake", "date", "game", "limit", "ident",
     "tournament_ident", "tournament_level", "tournament_name", "currency",
     "table_name", "max_players", "button_seat", "button", "players", "hero",
     "hero_seat", "hero_hole_cards", "preflop_actions", "flop", "turn", "river",
     "flop_actions", "turn_actions", "river_actions", "flop_pot", "turn_pot",
     "river_pot", "flop_num_players", "turn_num_players", "river_num_players",
     "total_pot", "show_down", "winners", "last_ident", "money_type"}

\* PokerHand._non_hand_attributes
NonHandAttributes == {"raw", "parsed", "header_parsed", "date_format"}

\* names with a leading underscore that a caller may store on the record
UnderscoreAttrs == {"_tag", "_non_hand_attributes"}

AttrNames == HandAttrs \cup NonHandAttributes \cup UnderscoreAttrs

\* attr.startswith('_')
StartsWithUnderscore(a) == a \in UnderscoreAttrs

\* __init__: raw, header_parsed and parsed are set, nothing else
NewRecord ==
    [a \in AttrNames |->
        CASE a = "raw" -> StrV("text")
          [] a \in {"header_parsed", "parsed"} -> BoolV(FALSE)
          [] OTHER -> Unset]

\* the class attributes that are no methods and have no underscore
ClassAttr(r, a) ==
    CASE a = "poker_room" -> StrV(r)
      [] a = "date_format" -> StrV("%")
      [] a = "currency" /\ r = "PKR" -> StrV("USD")
      [] OTHER -> Unset

\* getattr(self, a) for a name that is no property; Unset for AttributeError
GetAttr(dd, a) ==
    IF a \in AttrNames /\ dd[a] # Unset THEN dd[a] ELSE ClassAttr(room, a)

\* list(x) of a string, as texts
Chars(x) == CASE x = "5c" -> <<"5", "c">> [] x = "" -> <<>> [] OTHER -> <<x>>

\* an element of the board, as text
Elem(v) == IF v.t = "str" THEN v.s ELSE "<" \o v.t \o ">"

\* a board that tests each street on its own instead of nesting the tests:
\* the river is appended although the turn is absent
BoardFlat(dd) ==
    LET flop == dd["flop"]
        turn == dd["turn"]
        river == dd["river"]
        b1 == IF flop.t = "str" THEN Chars(flop.s) ELSE flop.q
        b2 == IF Truthy(turn) THEN Append(b1, Elem(turn)) ELSE b1
        b3 == IF Truthy(river) THEN Append(b2, Elem(river)) ELSE b2
        ret(b) == [err |-> "ok", v |-> IF b = <<>> THEN None ELSE Tup(b)]
        raise(e) == [err |-> e, v |-> None]
    IN  IF flop = Unset THEN raise("AttributeError")
        ELSE IF ~Truthy(flop) THEN ret(<<>>)
        ELSE IF flop.t \in {"int", "bool"} THEN raise("TypeError")
        ELSE IF turn = Unset \/ river = Unset THEN raise("AttributeError")
        ELSE ret(b3)

\* the property board: [err, v]
Board(dd) ==
    LET flop == dd["flop"]
        turn == dd["turn"]
        river == dd["river"]
        b1 == IF flop.t = "str" THEN Chars(flop.s) ELSE flop.q
        b2 == Append(b1, Elem(turn))
        b3 == Append(b2, Elem(river))
        ret(b) == [err |-> "ok", v |-> IF b = <<>> THEN None ELSE Tup(b)]
        raise(e) == [err |-> e, v |-> None]
    IN  IF flop = Unset THEN raise("AttributeError")
        ELSE IF ~Truthy(flop) THEN ret(<<>>)
        ELSE IF flop.t \in {"int", "bool"} THEN raise("TypeError")
        ELSE IF turn = Unset THEN raise("AttributeError")
        ELSE IF ~Truthy(turn) THEN ret(b1)
        ELSE IF river = Unset THEN raise("AttributeError")
        ELSE IF ~Truthy(river) THEN ret(b2)
        ELSE ret(b3)

\* self._non_hand_attributes as the record sees it: [err, names], the names
\* for which "attr in self._non_hand_attributes" holds
NonHand(dd) ==
    LET v == dd["_non_hand_attributes"]
    IN  IF v = Unset THEN [err |-> "ok", names |-> NonHandAttributes]
        ELSE IF v.t \in {"tuple", "odict"} THEN [err |-> "ok", names |-> {v.q[i] : i \in 1..Len(v.q)}]
        ELSE IF v.t = "str" THEN [err |-> "ok", names |-> {v.s}]
        ELSE [err |-> "TypeError", names |-> {}]

\* dir(self) without the methods
Dir(dd) ==
    {a \in AttrNames : dd[a] # Unset}
        \cup {"poker_room", "date_format", "board"}
        \cup (IF room = "PKR" THEN {"currency"} ELSE {})

\* keys(): [err, names]; the list is in the order of dir(), kept here as a set
Keys(dd) ==
    LET nh == NonHand(dd)
        b == Board(dd)
    IN  IF nh.err # "ok" THEN [err |-> nh.err, names |-> {}]
        ELSE IF "board" \notin nh.names /\ b.err # "ok" THEN [err |-> b.err, names |-> {}]
        ELSE [err |-> "ok",
              names |-> {a \in Dir(dd) : ~StartsWithUnderscore(a) /\ a \notin nh.names}]

\* __len__: [err, n]
LenOf(dd) == [err |-> Keys(dd).err, n |-> Cardinality(Keys(dd).names)]

\* __getitem__: [err, v]
GetItem(dd, key) ==
    LET nh == NonHand(dd)
    IN  IF nh.err # "ok" THEN [err |-> nh.err, v |-> None]
        ELSE IF key \in nh.names THEN [err |-> "KeyError", v |-> None]
        ELSE IF key = "board" THEN Board(dd)
        ELSE IF GetAttr(dd, key) = Unset THEN [err |-> "AttributeError", v |-> None]
        ELSE [err |-> "ok", v |-> GetAttr(dd, key)]

\* __setitem__: setattr(self, key, value); board is a property without setter
SetItem(dd, key, value) ==
    IF key = "board" THEN [err |-> "AttributeError", d |-> dd]
    ELSE [err |-> "ok", d |-> [dd EXCEPT ![key] = value]]

-----------------------------------------------------------------------------
(* The texts the records are constructed from *)

Names == {"alice", "bob"}

Cards == <<"2s", "3d", "4h", "5c", "6d">>
PKRCards == <<"2 s", "3 d", "4 h", "5 c", "6 d">>

Streets == <<"flop", "turn", "river">>

SeatLine(x) == L("seat", x.name, x.n, 100, <<>>)
SeatLines(seats) == [i \in 1..Len(seats) |-> SeatLine(seats[i])]

SummaryLine(x) == L(x.k, x.name, 1, 60, <<>>)
SummaryLines(summ) == [i \in 1..Len(summ) |-> SummaryLine(summ[i])]

StreetActs(street, nact) == IF nact = 0 THEN <<>> ELSE <<Act(street \o " bet")>>

\* the cards a street line shows for the street
StreetCards(cards, k) == IF k = 1 THEN SubSeq(cards, 1, 3) ELSE <<cards[k + 2]>>

RECURSIVE StarsStreets(_, _, _)
StarsStreets(k, n, nact) ==
    IF k > n THEN <<>>
    ELSE <<Empty, Marker(Upper(Streets[k])), L("cards", "", 0, 0, SubSeq(Cards, 1, k + 2))>>
            \o StreetActs(Streets[k], nact) \o StarsStreets(k + 1, n, nact)

RECURSIVE FullTiltStreets(_, _, _)
FullTiltStreets(k, n, nact) ==
    IF k > n THEN <<>>
    ELSE <<Empty, Marker(Upper(Streets[k])), L("streetline", "", 60 * k, 2, StreetCards(Cards, k))>>
            \o StreetActs(Streets[k], nact) \o FullTiltStreets(k + 1, n, nact)

RECURSIVE PKRStreets(_, _, _)
PKRStreets(k, n, nact) ==
    IF k > n THEN <<>>
    ELSE <<Empty, L("street", "", 0, 0, StreetCards(PKRCards, k))>>
            \o StreetActs(Streets[k], nact) \o <<L("sizes", "", 60 * k, 0, <<>>)>>
            \o PKRStreets(k + 1, n, nact)

HeaderLine(shape) == L("header", shape, IF shape = "baddate" THEN 0 - 1 ELSE 12, 0, <<>>)

Summary(p) ==
    <<Empty, Marker("SUMMARY"), L("pot", "", 300, 0, <<>>)>>
        \o (IF p.streets > 0 THEN <<L("board", "", 0, 0, SubSeq(Cards, 1, p.streets + 2))>> ELSE <<>>)
        \o SummaryLines(p.summ)

ShowDown(p) == IF p.sd THEN <<Empty, Marker("SHOW DOWN"), Act("reveal")>> ELSE <<>>

HoleCards(p) == <<Empty, Marker("HOLE CARDS"), L("dealt", p.hero, 0, 0, <<"Ah", "Kd">>), Act("raise")>>

StarsText(p) ==
    <<HeaderLine(p.shape), L("table", "t1 1", p.maxp, p.btn, <<>>)>>
        \o SeatLines(p.seats) \o <<Act("blind")>> \o HoleCards(p)
        \o StarsStreets(1, p.streets, p.nact) \o ShowDown(p) \o Summary(p)

FullTiltText(p) ==
    <<HeaderLine(p.shape)>>
        \o SeatLines(p.seats) \o <<Act("blind"), L("button", "", p.btn, 0, <<>>)>> \o HoleCards(p)
        \o FullTiltStreets(1, p.streets, p.nact) \o ShowDown(p) \o Summary(p)

PKRHeaderLines(p) ==
    <<L("pkr", "#1 - Bologna", 0, 0, <<>>),
      L("pkr", "h1", 0, 0, <<>>),
      L("pkr", "", IF p.shape = "baddate" THEN 0 - 1 ELSE 12, 0, <<>>),
      L("pkr", "h0", 0, 0, <<>>),
      L("pkr", IF p.shape = "badgame" THEN "CHESS" ELSE "HOLD'EM", 0, 0, <<>>),
      L("pkr", "NO LIMIT", 0, 0, <<>>),
      L("pkr", "RING", 0, 0, <<>>),
      L("pkr", "REAL MONEY", 0, 0, <<>>),
      IF p.shape = "noblind" THEN L("pkr", "", 0, 0, <<>>) ELSE L("blinds", "", 5, 10, <<>>),
      L("pkr", "", p.btn, 0, <<>>)>>

PKRText(p) ==
    PKRHeaderLines(p)
        \o SeatLines(p.seats) \o <<Empty, L("button", "", p.btn, 0, <<>>), Act("blind")>>
        \o <<Empty, L("dealt", p.hero, 0, 0, <<"A h", "K d">>), Act("raise"), L("sizes", "", 30, 0, <<>>)>>
        \o PKRStreets(1, p.streets, p.nact)
        \o <<Empty, L("rake", "", 3, 0, <<>>)>> \o SummaryLines(p.summ)

TextOf(r, p) ==
    CASE r = "STARS" -> StarsText(p)
      [] r = "FTP" -> FullTiltText(p)
      [] OTHER -> PKRText(p)

Rooms == {"STARS", "FTP", "PKR"}

\* the sequences over S of length at most n
RECURSIVE SeqsUpTo(_, _)
SeqsUpTo(S, n) ==
    IF n = 0 THEN {<<>>}
    ELSE SeqsUpTo(S, n - 1) \cup {Append(q, x) : q \in SeqsUpTo(S, n - 1), x \in S}

SeatChoices == [n : 1..MaxSeat, name : Names]

SummaryKinds(r) == IF r = "PKR" THEN {"shows", "wins"} ELSE {"collected", "won", "folded"}

SummaryChoices(r) == [k : SummaryKinds(r), name : Names]

HeaderShapes(r) ==
    CASE r = "STARS" -> {"ok", "nomatch", "baddate", "badgame"}
      [] r = "FTP" -> {"ok", "notour", "nogame", "badgame", "noblind", "nodate", "baddate"}
      [] OTHER -> {"ok", "baddate", "badgame", "noblind"}

DefaultSeats == << [n |-> 1, name |-> "alice"], [n |-> 2, name |-> "bob"] >>

\* the line of the player who wins a hand without showdown
Collects(r, name) == [k |-> IF r = "PKR" THEN "wins" ELSE "collected", name |-> name]

\* texts that vary the seating: a hand won on the river without showdown
SeatingTexts(r) ==
    {TextOf(r, [shape |-> "ok", maxp |-> mp, btn |-> b, seats |-> ss, hero |-> "alice",
                streets |-> 3, nact |-> 1, sd |-> FALSE, summ |-> <<Collects(r, "alice")>>]) :
        mp \in (IF r = "STARS" THEN {2, MaxSeat} ELSE {2}),
        b \in {1, 2, MaxSeat},
        ss \in SeqsUpTo(SeatChoices, MaxSeatLines)}

\* texts that vary the streets played, their actions and the showdown
StreetTexts(r) ==
    {TextOf(r, [shape |-> "ok", maxp |-> 2, btn |-> 1, seats |-> DefaultSeats, hero |-> "alice",
                streets |-> st, nact |-> na, sd |-> sd,
                summ |-> <<[k |-> IF r = "PKR" THEN "wins" ELSE IF sd THEN "won" ELSE "collected",
                            name |-> "bob"]>>]) :
        st \in 0..3, na \in 0..1,
        sd \in (IF r = "PKR" THEN {FALSE} ELSE BOOLEAN)}

\* texts that vary the summary of a hand that ended before the flop or on the river
OutcomeTexts(r) ==
    {TextOf(r, [shape |-> "ok", maxp |-> 2, btn |-> 1, seats |-> DefaultSeats, hero |-> "alice",
                streets |-> st, nact |-> 1, sd |-> sd, summ |-> su]) :
        st \in {0, 3},
        sd \in (IF r = "PKR" THEN {FALSE} ELSE BOOLEAN),
        su \in SeqsUpTo(SummaryChoices(r), MaxSummary)}

\* texts that vary the header
HeaderTexts(r) ==
    {TextOf(r, [shape |-> sh, maxp |-> 2, btn |-> 1, seats |-> DefaultSeats, hero |-> "alice",
                streets |-> 3, nact |-> 1, sd |-> FALSE, summ |-> <<Collects(r, "bob")>>]) :
        sh \in HeaderShapes(r)}

InputTexts(r) == SeatingTexts(r) \cup StreetTexts(r) \cup OutcomeTexts(r) \cup HeaderTexts(r)

\* one well-formed text per room
PlainText(r) ==
    TextOf(r, [shape |-> "ok", maxp |-> 2, btn |-> 1, seats |-> DefaultSeats, hero |-> "alice",
               streets |-> 3, nact |-> 1, sd |-> FALSE, summ |-> <<Collects(r, "bob")>>])

-----------------------------------------------------------------------------
(* The calls on a record *)

ParseHeaderOf(s) ==
    CASE room = "STARS" -> StarsParseHeader(s)
      [] room = "FTP" -> FullTiltParseHeader(s)
      [] OTHER -> PKRParseHeader(s)

ParseOf(s) ==
    CASE room = "STARS" -> StarsParse(s)
      [] room = "FTP" -> FullTiltParse(s)
      [] OTHER -> PKRParse(s)

\* the record after __init__(hand_text, parse=False)
Constructed(texts(_)) ==
    /\ room \in Rooms
    /\ splitted \in texts(room)
    /\ sections = SectionsOf(splitted)
    /\ outcome = "new"
    /\ last = "init"
    /\ hruns = 0
    /\ calls = 0
    /\ out = [err |-> "ok", v |-> None]
    /\ arg = <<>>

Init == Constructed(InputTexts) /\ d = NewRecord

ParseHeaderCall ==
    /\ calls < MaxCalls
    /\ \E s \in {ParseHeaderOf(Run(d))} :
          /\ d' = s.d
          /\ outcome' = s.err
          /\ hruns' = s.h
    /\ last' = "parse_header"
    /\ calls' = calls + 1
    /\ UNCHANGED <<room, splitted, sections, out, arg>>

ParseCall ==
    /\ calls < MaxCalls
    /\ \E s \in {ParseOf(Run(d))} :
          /\ d' = s.d
          /\ outcome' = s.err
          /\ hruns' = s.h
    /\ last' = "parse"
    /\ calls' = calls + 1
    /\ UNCHANGED <<room, splitted, sections, out, arg>>

Next == ParseHeaderCall \/ ParseCall

Spec == Init /\ [][Next]_vars

-----------------------------------------------------------------------------
(* The record used through its mapping interface *)

SetKeys ==
    {"ident", "flop", "turn", "raw", "parsed", "header_parsed", "date_format",
     "_tag", "_non_hand_attributes", "board"}

SetValues == {None, StrV("5c"), Tup(SubSeq(Cards, 1, 3))}

InitMap == Constructed(LAMBDA r : {PlainText(r)}) /\ d = NewRecord

SetItemCall ==
    /\ calls < MaxCalls
    /\ \E key \in SetKeys, value \in SetValues :
          \E r \in {SetItem(d, key, value)} :
             /\ d' = r.d
             /\ outcome' = r.err
    /\ last' = "setitem"
    /\ hruns' = 0
    /\ calls' = calls + 1
    /\ UNCHANGED <<room, splitted, sections, out, arg>>

NextMap == ParseHeaderCall \/ ParseCall \/ SetItemCall

SpecMap == InitMap /\ [][NextMap]_vars

-----------------------------------------------------------------------------
(* The derived board read on records with every combination of streets *)

FlopChoices ==
    {Unset, None} \cup {Tup(<<Cards[i], Cards[j], Cards[k]>>) : i \in {1}, j \in {2, 3}, k \in {4, 5}}

CardChoices == {Unset, None, StrV("")} \cup {StrV(Cards[i]) : i \in 4..5}

InitBoard ==
    /\ Constructed(LAMBDA r : {PlainText(r)})
    /\ \E f \in FlopChoices, t \in CardChoices, r \in CardChoices :
          d = [NewRecord EXCEPT !["flop"] = f, !["turn"] = t, !["river"] = r]

ReadBoard ==
    /\ last = "init"
    /\ out' = Board(d)
    /\ last' = "board"
    /\ UNCHANGED <<room, splitted, sections, d, outcome, hruns, calls, arg>>

NextBoard == ReadBoard

SpecBoard == InitBoard /\ [][NextBoard]_vars

-----------------------------------------------------------------------------
(* The vocabulary normalizers *)

\* A string handed to a normalizer is the sequence of its characters.
Letters ==
    <<"a", "b", "c", "d", "e", "f", "g", "h", "i", "j", "k", "l", "m",
      "n", "o", "p", "q", "r", "s", "t", "u", "v", "w", "x", "y", "z">>

Capitals ==
    <<"A", "B", "C", "D", "E", "F", "G", "H", "I", "J", "K", "L", "M",
      "N", "O", "P", "Q", "R", "S", "T", "U", "V", "W", "X", "Y", "Z">>

\* str.lower(): a capital becomes its letter, every other character stays
StrLower(x) ==
    [i \in 1..Len(x) |->
        IF \E k \in 1..Len(Capitals) : Capitals[k] = x[i]
        THEN Letters[CHOOSE k \in 1..Len(Capitals) : Capitals[k] = x[i]]
        ELSE x[i]]

\* str.upper(): a letter becomes its capital, every other character stays
StrUpper(x) ==
    [i \in 1..Len(x) |->
        IF \E k \in 1..Len(Letters) : Letters[k] = x[i]
        THEN Capitals[CHOOSE k \in 1..Len(Letters) : Letters[k] = x[i]]
        ELSE x[i]]

\* the characters as one text
RECURSIVE Str(_)
Str(x) == IF x = <<>> THEN "" ELSE x[1] \o Str(Tail(x))

\* normalize_room compared without lower(): only the exact spelling is found
normalize_room_exact(x) ==
    LET val == Str(x)
    IN  IF val \in {"stars", "pokerstars", "ps"} THEN StrV("STARS")
        ELSE IF val \in {"ftp", "full tilt", "fulltilt", "full tilt poker", "fulltiltpoker"}
        THEN StrV("FTP")
        ELSE IF val \in {"pkr", "pkr poker"} THEN StrV("PKR")
        ELSE None

normalize_room(x) ==
    LET val == Str(StrLower(x))
    IN  IF val \in {"stars", "pokerstars", "ps"} THEN StrV("STARS")
        ELSE IF val \in {"ftp", "full tilt", "fulltilt", "full tilt poker", "fulltiltpoker"}
        THEN StrV("FTP")
        ELSE IF val \in {"pkr", "pkr poker"} THEN StrV("PKR")
        ELSE None

normalize_game_type(x) ==
    LET val == Str(StrLower(x))
    IN  IF val \in {"ring", "cash game", "cash"} THEN StrV("CASH")
        ELSE IF val \in {"tournament", "tour"} THEN StrV("TOUR")
        ELSE None

normalize_game(x) ==
    LET val == Str(StrLower(x))
    IN  IF val \in {"hold'em", "holdem"} THEN StrV("HOLDEM")
        ELSE IF val \in {"omaha"} THEN StrV("OMAHA")
        ELSE None

normalize_limit(x) ==
    LET value == Str(StrLower(x))
    IN  IF value \in {"no limit", "nl"} THEN StrV("NL")
        ELSE IF value \in {"pot limit", "pl"} THEN StrV("PL")
        ELSE IF value \in {"fix limit", "fl"} THEN StrV("FL")
        ELSE None

normalize_money_type(x) ==
    LET value == StrLower(x)
    IN  IF Str(value) \in {"real money"} THEN StrV("R")
        ELSE IF Str(value) \in {"play money"} THEN StrV("P")
        ELSE StrV(Str(StrUpper(value)))

(* The strings the normalizers are called with *)

\* how many letters of a spelling are put in upper case at once (besides
\* the spelling all in upper case)
MaxUpper == 2

\* the spellings normalize_room knows, by code
RoomSpellings ==
    [STARS |-> {<<"s", "t", "a", "r", "s">>, <<"p", "o", "k", "e", "r", "s", "t", "a", "r", "s">>,
                 <<"p", "s">>},
     FTP |-> {<<"f", "t", "p">>, <<"f", "u", "l", "l", " ", "t", "i", "l", "t">>,
               <<"f", "u", "l", "l", "t", "i", "l", "t">>,
               <<"f", "u", "l", "l", " ", "t", "i", "l", "t", " ", "p", "o", "k", "e", "r">>,
               <<"f", "u", "l", "l", "t", "i", "l", "t", "p", "o", "k", "e", "r">>},
     PKR |-> {<<"p", "k", "r">>, <<"p", "k", "r", " ", "p", "o", "k", "e", "r">>}]

\* the spellings normalize_game_type knows, by code
GameTypeSpellings ==
    [CASH |-> {<<"r", "i", "n", "g">>, <<"c", "a", "s", "h", " ", "g", "a", "m", "e">>,
                <<"c", "a", "s", "h">>},
     TOUR |-> {<<"t", "o", "u", "r", "n", "a", "m", "e", "n", "t">>, <<"t", "o", "u", "r">>}]

\* the spellings normalize_game knows, by code
GameSpellings ==
    [HOLDEM |-> {<<"h", "o", "l", "d", "'", "e", "m">>, <<"h", "o", "l", "d", "e", "m">>},
     OMAHA |-> {<<"o", "m", "a", "h", "a">>}]

\* the spellings normalize_limit knows, by code
LimitSpellings ==
    [NL |-> {<<"n", "o", " ", "l", "i", "m", "i", "t">>, <<"n", "l">>},
     PL |-> {<<"p", "o", "t", " ", "l", "i", "m", "i", "t">>, <<"p", "l">>},
     FL |-> {<<"f", "i", "x", " ", "l", "i", "m", "i", "t">>, <<"f", "l">>}]

\* the spellings normalize_money_type knows, by code
MoneySpellings ==
    [R |-> {<<"r", "e", "a", "l", " ", "m", "o", "n", "e", "y">>},
     P |-> {<<"p", "l", "a", "y", " ", "m", "o", "n", "e", "y">>}]

\* strings that are in no table
OtherWords ==
    {<<>>, <<"p", "o", "k", "e", "r">>, <<"s", "t", "a", "r">>,
     <<"s", "t", "a", "r", "s", " ">>, <<"p", " ", "s">>,
     <<"h", "o", "l", "d", " ", "e", "m">>, <<"n", "o", "-", "l", "i", "m", "i", "t">>,
     <<"s", "t", "u", "d">>, <<"r", "e", "a", "l">>,
     <<"p", "l", "a", "y", "m", "o", "n", "e", "y">>, <<"s", "n", "g">>,
     <<"o", "m", "a", "h", "a", "8">>, <<"f", "u", "n", " ", "m", "o", "n", "e", "y">>}

\* every spelling and every other word, with at most MaxUpper of its
\* characters in upper case, and all in upper case
NormInputs ==
    LET spellings(table) == UNION {table[code] : code \in DOMAIN table}
        words == spellings(RoomSpellings) \cup spellings(GameTypeSpellings)
                    \cup spellings(GameSpellings) \cup spellings(LimitSpellings)
                    \cup spellings(MoneySpellings) \cup OtherWords
        recase(w, S) == [i \in 1..Len(w) |-> IF i \in S THEN StrUpper(<<w[i]>>)[1] ELSE w[i]]
        upTo(w) == {S \in SUBSET (1..Len(w)) : Cardinality(S) <= MaxUpper}
    IN  UNION {{recase(w, S) : S \in upTo(w)} \cup {StrUpper(w)} : w \in words}

\* no record is involved in a normalizer call
InitNorm ==
    /\ room = "STARS"
    /\ splitted = PlainText(room)
    /\ sections = SectionsOf(splitted)
    /\ d = NewRecord
    /\ outcome = "new"
    /\ last = "init"
    /\ hruns = 0
    /\ calls = 0
    /\ out = [err |-> "ok", v |-> None]
    /\ arg \in NormInputs

Returned(name, v) ==
    /\ last = "init"
    /\ out' = [err |-> "ok", v |-> v]
    /\ last' = name
    /\ UNCHANGED <<room, splitted, sections, d, outcome, hruns, calls, arg>>

NormalizeRoom == Returned("normalize_room", normalize_room(arg))

NormalizeGameType == Returned("normalize_game_type", normalize_game_type(arg))

NormalizeGame == Returned("normalize_game", normalize_game(arg))

NormalizeLimit == Returned("normalize_limit", normalize_limit(arg))

NormalizeMoneyType == Returned("normalize_money_type", normalize_money_type(arg))

NextNorm ==
    NormalizeRoom \/ NormalizeGameType \/ NormalizeGame \/ NormalizeLimit \/ NormalizeMoneyType

SpecNorm == InitNorm /\ [][NextNorm]_vars

-----------------------------------------------------------------------------
(* Properties of the derived board *)

\* a street that the truth test of the property takes for missing
Absent(v) == ~Truthy(v)

\* C1: the board read from a record is decided by flop, turn and river alone:
\* no flop gives no board; a flop without a turn gives the flop; flop and turn
\* without a river give flop then turn; all three give flop, turn, river. The
\* board has 0, 3, 4 or 5 cards, and a river never counts without a turn.
C1_BoardDerivation ==
    (last = "board" /\ out.err = "ok") =>
        LET f == d["flop"]
            t == d["turn"]
            r == d["river"]
        IN  /\ Absent(f) => out.v = None
            /\ (~Absent(f) /\ Absent(t)) => out.v = Tup(f.q)
            /\ (~Absent(f) /\ ~Absent(t) /\ Absent(r)) => out.v = Tup(Append(f.q, t.s))
            /\ (~Absent(f) /\ ~Absent(t) /\ ~Absent(r)) => out.v = Tup(f.q \o <<t.s, r.s>>)
            /\ Len(out.v.q) \in {0, 3, 4, 5}

\* a board was read from a record with a flop and a river but no turn, and
\* it is the flop
C1_RiverWithoutTurn ==
    /\ last = "board"
    /\ out.err = "ok"
    /\ ~Absent(d["flop"])
    /\ d["turn"] = None
    /\ ~Absent(d["river"])
    /\ out.v = d["flop"]

-----------------------------------------------------------------------------
(* Properties of parse_header and parse *)

ParseDone == last = "parse" /\ outcome = "ok"

\* the fields that differ from those of a record just constructed
Assigned == {a \in AttrNames : d[a] # NewRecord[a]}

\* C2: when parse_header has completed on a record, a parse that follows
\* and completes does not run the header grammar again and leaves every field
\* that parse_header assigned as parse_header left it.
C2_HeaderNotRerun ==
    [][(last = "parse_header" /\ outcome = "ok" /\ last' = "parse" /\ outcome' = "ok")
          => (hruns' = 0 /\ \A a \in Assigned : d'[a] = d[a])]_vars

\* the header of the text follows the header grammar of its room
HeaderConforms ==
    IF room = "PKR"
    THEN At(2).n >= 0 /\ At(4).name = "HOLD'EM" /\ At(8).k = "blinds"
    ELSE At(0).name = "ok"

\* C3: on a text whose header does not follow the room's header grammar,
\* parse_header and parse end in an error and no field of the hand has been
\* assigned on the record.
C3_NoPartialHeader ==
    (calls >= 1 /\ ~HeaderConforms) =>
        (outcome # "ok" /\ \A a \in HandAttrs : d[a] = Unset)

Max(S) == CHOOSE x \in S : \A y \in S : y <= x

\* the positions of the seat lines for seat i
SeatLinesOf(i) == {j \in 1..Len(splitted) : splitted[j].k = "seat" /\ splitted[j].n = i}

\* the name the text seats at seat i
SeatName(i) ==
    IF SeatLinesOf(i) = {} THEN "Empty Seat " \o ToString(i)
    ELSE splitted[Max(SeatLinesOf(i))].name

\* C4: after a completed parse players has max_players entries and entry i
\* is seat i, also when seats lack a seat line or two seats carry one name.
C4_PlayersBySeat ==
    ParseDone =>
        /\ Len(d["players"].q) = d["max_players"].i
        /\ \A i \in 1..Len(d["players"].q) : d["players"].q[i] = SeatName(i)

\* C5: after a completed parse 1 <= button_seat <= max_players and button is
\* the name of the entry of players at button_seat, also when the button seat
\* lies beyond the last seat line.
C5_ButtonInPlayers ==
    ParseDone =>
        /\ 1 <= d["button_seat"].i
        /\ d["button_seat"].i <= d["max_players"].i
        /\ d["button_seat"].i <= Len(d["players"].q)
        /\ d["button"] = StrV(d["players"].q[d["button_seat"].i])

\* C6: after a completed parse winners is not empty, also for a hand with a
\* show down whose summary has no matching winner line.
C6_WinnersNonEmpty == ParseDone => d["winners"].q # <<>>

\* C7: after a completed parse winners holds no name twice, also when
\* several winner lines name one player.
C7_WinnersDistinct ==
    ParseDone =>
        \A i, j \in 1..Len(d["winners"].q) :
            d["winners"].q[i] = d["winners"].q[j] => i = j

\* the streets the text deals
StreetsDealt ==
    IF room = "PKR" THEN Cardinality({j \in 1..Len(splitted) : splitted[j].k = "street"})
    ELSE Cardinality({j \in 1..Len(splitted) :
                        splitted[j].k = "marker" /\ splitted[j].name \in {"FLOP", "TURN", "RIVER"}})

\* the fields a room keeps for a street
StreetFields(street) ==
    {street, ActionsOf(street)}
        \cup (IF room = "STARS" THEN {} ELSE {PotOf(street)})
        \cup (IF room = "FTP" THEN {NumPlayersOf(street)} ELSE {})

\* C8: a street the text does not deal is no error: parse completes and the
\* cards, the actions and the pot and player count of that street are absent;
\* with a flop and no turn the board is the flop.
C8_MissingStreetIsAbsent ==
    (calls = 1 /\ last = "parse" /\ splitted \in StreetTexts(room)) =>
        /\ outcome = "ok"
        /\ \A k \in 1..3 :
              k > StreetsDealt => \A a \in StreetFields(Streets[k]) : d[a] = None
        /\ StreetsDealt = 1 => Board(d) = [err |-> "ok", v |-> d["flop"]]

WinnerSet == {d["winners"].q[i] : i \in 1..Len(d["winners"].q)}

\* the names on the lines of one kind
NamesOn(kind) ==
    {splitted[j].name : j \in {i \in 1..Len(splitted) : splitted[i].k = kind}}

\* the names on the lines of one kind among those the winner loop reads
NamesRead(kind) ==
    {splitted[j].name :
        j \in {i \in 1..Len(splitted) : i > Section(0 - 1) + 4 /\ splitted[i].k = kind}}

\* C9 as stated for every room: winners takes names from 'collected' lines
\* alone when show_down is false and from 'won' lines alone when it is true.
C9_PatternByShowDown ==
    ParseDone =>
        IF Truthy(d["show_down"]) THEN WinnerSet \subseteq NamesOn("won")
        ELSE WinnerSet \subseteq NamesOn("collected")

\* C9: in a PokerStars or Full Tilt hand winners holds the names of the
\* 'collected' lines the loop reads when show_down is false and those of the
\* 'won' lines when it is true, never both; in a PKR hand winners holds the
\* names of the 'wins' lines whatever show_down is.
C9_OnePatternPerHand ==
    ParseDone =>
        IF room = "PKR" THEN WinnerSet = NamesOn("wins")
        ELSE IF Truthy(d["show_down"]) THEN WinnerSet = NamesRead("won")
        ELSE WinnerSet = NamesRead("collected")

\* a hand with a show down whose summary has a 'collected' line for a player
\* who is no winner, next to a 'won' line
C9_CollectedLineIgnored ==
    /\ ParseDone
    /\ room # "PKR"
    /\ Truthy(d["show_down"])
    /\ WinnerSet # {}
    /\ NamesRead("collected") \ WinnerSet # {}

-----------------------------------------------------------------------------
(* Properties of the mapping interface *)

\* C10: in every state of the record keys() holds none of raw, parsed,
\* header_parsed, date_format nor a name with a leading underscore, looking up
\* one of the four raises KeyError, and len is the number of keys.
C10_NoBookkeepingExposed ==
    /\ Keys(d).err = "ok" =>
          Keys(d).names \cap (NonHandAttributes \cup UnderscoreAttrs) = {}
    /\ \A a \in NonHandAttributes : GetItem(d, a).err = "KeyError"
    /\ LenOf(d).err = "ok" => LenOf(d).n = Cardinality(Keys(d).names)

-----------------------------------------------------------------------------
(* Properties of a record before its parse stages have run *)

\* the record is as __init__(hand_text, parse=False) left it, or parse_header
\* alone has completed on it
BeforeParse == last = "init" \/ (last = "parse_header" /\ outcome = "ok" /\ calls = 1)

\* the public fields that neither a parse stage nor the class has given a value
NotYetAssigned == {a \in HandAttrs : d[a] = Unset /\ ClassAttr(room, a) = Unset}

\* C11: on a record constructed with parse=False, and on a record after
\* parse_header only, keys() succeeds, the derived board reads as None, and
\* every public field not yet assigned reads as None instead of failing.
C11_UnassignedReadsNone ==
    BeforeParse =>
        /\ Keys(d).err = "ok"
        /\ GetItem(d, "board") = [err |-> "ok", v |-> None]
        /\ \A a \in NotYetAssigned : GetItem(d, a) = [err |-> "ok", v |-> None]

-----------------------------------------------------------------------------
(* Properties of the vocabulary normalizers *)

\* x is the spelling w in some letter case
SameUpToCase(x, w) ==
    /\ Len(x) = Len(w)
    /\ \A i \in 1..Len(w) :
          \/ x[i] = w[i]
          \/ \E k \in 1..Len(Letters) : {x[i], w[i]} = {Letters[k], Capitals[k]}

\* the codes of the table that have a spelling x is a letter case of
CodesFor(table, x) == {code \in DOMAIN table : \E w \in table[code] : SameUpToCase(x, w)}

\* the canonical code of x in the table, None when no spelling fits
Canonical(table, x) ==
    IF CodesFor(table, x) = {} THEN None ELSE StrV(CHOOSE code \in CodesFor(table, x) : TRUE)

\* C12: normalize_room, normalize_game_type, normalize_game and
\* normalize_limit return the canonical code for every spelling of their table
\* in any letter case and None, without an error, for every other string;
\* normalize_money_type returns R for 'real money', P for 'play money' in any
\* letter case and the upper-cased input for every other string, never None.
C12_NormalizersLookup ==
    /\ last = "normalize_room" => out = [err |-> "ok", v |-> Canonical(RoomSpellings, arg)]
    /\ last = "normalize_game_type" => out = [err |-> "ok", v |-> Canonical(GameTypeSpellings, arg)]
    /\ last = "normalize_game" => out = [err |-> "ok", v |-> Canonical(GameSpellings, arg)]
    /\ last = "normalize_limit" => out = [err |-> "ok", v |-> Canonical(LimitSpellings, arg)]
    /\ last = "normalize_money_type" =>
          /\ out.err = "ok"
          /\ out.v # None
          /\ out.v = IF CodesFor(MoneySpellings, arg) # {}
                     THEN Canonical(MoneySpellings, arg)
                     ELSE StrV(Str(StrUpper(arg)))

\* normalize_room was given a spelling of Full Tilt in mixed letter case and
\* returned FTP
C12_MixedCaseRoomFound ==
    /\ last = "normalize_room"
    /\ arg \notin {StrLower(arg), StrUpper(arg)}
    /\ out.v = StrV("FTP")

-----------------------------------------------------------------------------
(* Properties of the seats of the rooms without a declared table capacity *)

\* the seat numbers of the seat lines of the text
SeatsScanned == {splitted[j].n : j \in {k \in 1..Len(splitted) : splitted[k].k = "seat"}}

\* the seats that players holds under their placeholder name with stack 0
EmptySeats ==
    {i \in 1..PKRDefaultSeats :
        \E j \in 1..Len(d["players"].q) :
           d["players"].q[j] = "Empty Seat " \o ToString(i) /\ d["players"].z[j] = 0}

\* C13: after a completed parse of a Full Tilt or PKR hand max_players is the
\* highest seat number among the seat lines, in whatever order the seat lines
\* appear, the seats are cut to that length, and exactly the seats up to
\* max_players without a seat line are 'Empty Seat N' with stack 0.
C13_SeatsUpToHighest ==
    (ParseDone /\ room \in {"FTP", "PKR"}) =>
        /\ d["max_players"] = IntV(Max(SeatsScanned))
        /\ EmptySeats = {i \in 1..d["max_players"].i : SeatLinesOf(i) = {}}

-----------------------------------------------------------------------------
(* Properties of show_down and the parse-state flags *)

\* the text holds the showdown marker of its room: the SHOW DOWN line-group
\* of PokerStars and Full Tilt, a 'shows' line of PKR
ShowdownMarked ==
    IF room = "PKR" THEN \E j \in 1..Len(splitted) : HasShows(splitted[j])
    ELSE ShowDownMarker

\* C14: after a completed parse, in every room, show_down is true when the
\* text holds the showdown marker and false when it does not, never
\* unassigned, and header_parsed and parsed are both true.
C14_ShowDownAndFlagsSet ==
    ParseDone =>
        /\ d["show_down"] = BoolV(ShowdownMarked)
        /\ d["header_parsed"] = BoolV(TRUE)
        /\ d["parsed"] = BoolV(TRUE)

====
